---- MODULE Spec2Model ----
(***************************************************************************)
(* Model of results/plot_results.py: generate_plots() reads                *)
(* benchmark_results.csv, derives Throughput_StdDev on the rows of the     *)
(* 2.5MB file, draws a grouped bar chart and a faceted bar chart, overlays *)
(* error bars by looking every patch of an axes up in the data, and saves  *)
(* two PNG files.                                                          *)
(*                                                                         *)
(* The calls into pandas / seaborn / matplotlib are modelled by what the   *)
(* libraries do with the arguments the script passes.  The script runs on  *)
(* seaborn 0.12 and on seaborn 0.13 (it needs errorbar=None and the        *)
(* seaborn-v0_8 style); the two draw different patch lists, so the build   *)
(* is a variable chosen in Init.                                           *)
(***************************************************************************)
EXTENDS Integers, Sequences, FiniteSets, TLC

\* ------------------------------------------------------------------ bounds
MaxRows == 2

\* ------------------------------------------------------------ input domain
\* Label universes in lexicographic order (pandas sorts the categories).
CipherOrder == <<"A", "B">>
OperationOrder == <<"decrypt", "encrypt">>

Marker == <<"2", "_", "5", "M", "B">>
Filenames == { <<"1", "M", "B">>, <<"f", "2", "_", "5", "M", "B">> }

\* (MeanTime(ms), StdDev(ms), Throughput(MB/s)) of a record.
Samples == { <<4, 1, 2>>, <<0, 2, 3>> }

Range(s) == { s[k] : k \in 1..Len(s) }

Rows ==
  { [Cipher |-> c, Operation |-> o, Filename |-> f,
     MeanTime |-> m[1], StdDev |-> m[2], Throughput |-> m[3]] :
      c \in Range(CipherOrder), o \in Range(OperationOrder),
      f \in Filenames, m \in Samples }

Datasets == UNION { [1..n -> Rows] : n \in 1..MaxRows }

NoFile == [exists |-> FALSE]
File(content) == [exists |-> TRUE, content |-> content]
Versions == {"v0_12", "v0_13"}

\* ------------------------------------------------------- float arithmetic
\* Non-negative IEEE values: a reduced fraction, +inf or NaN.
RECURSIVE GCD(_, _)
GCD(a, b) == IF b = 0 THEN a ELSE GCD(b, a % b)

NaN == [k |-> "nan"]
Inf == [k |-> "inf"]
Fin(n, d) == LET q == GCD(n, d) IN [k |-> "fin", n |-> n \div q, d |-> d \div q]

\* Python's scalar division, which raises ZeroDivisionError (compared in C4)
TrueDiv_ZeroDivisionError(a, b) == IF b = 0 THEN [k |-> "raise"] ELSE Fin(a, b)

\* Series / Series: numpy true division, x/0 is inf and 0/0 is nan, no raise.
TrueDiv(a, b) == IF b = 0 THEN (IF a = 0 THEN NaN ELSE Inf) ELSE Fin(a, b)

\* Series * Series with a float left operand.
FMul(x, s) ==
  CASE x.k = "fin" -> Fin(x.n * s, x.d)
    [] x.k = "inf" -> IF s = 0 THEN NaN ELSE Inf
    [] OTHER -> x

RECURSIVE SumSeq(_)
SumSeq(s) == IF s = <<>> THEN 0 ELSE Head(s) + SumSeq(Tail(s))

\* the default estimator of barplot / catplot: the mean of the group
Mean(s) == IF s = <<>> THEN NaN ELSE Fin(SumSeq(s), Len(s))


\* ------------------------------------------------------------------ pandas
\* astype('category'): the sorted distinct labels of the column.
Categories(data, field, order) ==
  SelectSeq(order, LAMBDA c : \E k \in 1..Len(data) : data[k][field] = c)

\* Series.str.contains(pat) for a pattern without regex metacharacters.
Contains(s, pat) ==
  \E k \in 0..(Len(s) - Len(pat)) : SubSeq(s, k + 1, k + Len(pat)) = pat

\* df[df['Cipher'] == c & df['Operation'] == o], row order kept.
Lookup(data, c, o) ==
  SelectSeq(data, LAMBDA r : r.Cipher = c /\ r.Operation = o)

Column(data, field) == [k \in 1..Len(data) |-> data[k][field]]

\* the column as it is, repeated values kept (compared in C7)
Unique_keep_all(s) == s

\* unique values of a column in order of first appearance
RECURSIVE Unique(_)
Unique(s) ==
  IF s = <<>> THEN <<>>
  ELSE LET u == Unique(SubSeq(s, 1, Len(s) - 1))
           x == s[Len(s)]
       IN IF x \in Range(u) THEN u ELSE Append(u, x)

\* -------------------------------------------------------------- colours
\* sns.color_palette(name, n): n RGB triples sampled inside the colormap.
color_palette(name, n) ==
  IF name = "viridis"
  THEN (IF n = 1 THEN << <<33, 145, 140>> >>
        ELSE << <<49, 104, 142>>, <<53, 183, 121>> >>)
  ELSE (IF n = 1 THEN << <<204, 71, 120>> >>
        ELSE << <<156, 23, 158>>, <<237, 121, 83>> >>)

Max3(c) == IF c[1] >= c[2] /\ c[1] >= c[3] THEN c[1]
           ELSE IF c[2] >= c[3] THEN c[2] ELSE c[3]
Min3(c) == IF c[1] <= c[2] /\ c[1] <= c[3] THEN c[1]
           ELSE IF c[2] <= c[3] THEN c[2] ELSE c[3]

\* seaborn draws filled bars with saturation=0.75: every channel moves a
\* quarter of the way to the HLS lightness (max+min)/2.
Desaturate(c) == [k \in 1..3 |-> (Max3(c) + Min3(c) + 6 * c[k]) \div 8]

\* Patch.get_facecolor(): an RGBA 4-tuple.
FaceColor(rgb) == Append(Desaturate(rgb), 255)

\* int(round(v)) for v given in tenths; Python rounds ties to even.
PyRound(v10) ==
  LET q == v10 \div 10
      r == v10 % 10
  IN IF r < 5 THEN q
     ELSE IF r > 5 THEN q + 1
     ELSE IF q % 2 = 0 THEN q ELSE q + 1

\* -------------------------------------------------- seaborn / matplotlib
\* Position k of the bar list: hue level j outermost, category i innermost.
Slots(nc, nh) ==
  [k \in 1..(nc * nh) |-> [i |-> ((k - 1) % nc) + 1, j |-> ((k - 1) \div nc) + 1]]

\* One dodged bar (lengths in tenths of an axis unit; the group of a category
\* is 0.8 wide and centred on the category's index).
Bar(data, cats, hues, pal, yfield, s) ==
  LET w == 8 \div Len(hues)
  IN [kind |-> "bar",
      x |-> 10 * (s.i - 1) - 4 + (s.j - 1) * w,
      width |-> w,
      height |-> Mean(Column(Lookup(data, cats[s.i], hues[s.j]), yfield)),
      facecolor |-> FaceColor(pal[s.j]),
      cipher |-> cats[s.i],
      operation |-> hues[s.j]]

\* seaborn 0.12 draws a bar for every (category, hue level), of height nan
\* where the data has no such row; seaborn 0.13 draws the pairs of the data.
DataBars(version, data, cats, hues, pal, yfield) ==
  LET sl == Slots(Len(cats), Len(hues))
      all == [k \in 1..Len(sl) |-> Bar(data, cats, hues, pal, yfield, sl[k])]
  IN IF version = "v0_12" THEN all
     ELSE SelectSeq(all, LAMBDA p : Lookup(data, p.cipher, p.operation) # <<>>)

\* seaborn 0.13 builds the legend from one Rectangle((0, 0), 0, 0) per hue
\* level, added to the axes with ax.add_artist: they are in ax.patches.
LegendProxies(hues, pal) ==
  [j \in 1..Len(hues) |->
     [kind |-> "legend", x |-> 0, width |-> 0, height |-> Fin(0, 1),
      facecolor |-> FaceColor(pal[j]), cipher |-> "", operation |-> hues[j]]]

\* ax.patches after sns.barplot(data, x='Cipher', hue='Operation', ax=ax)
BarplotPatches(version, data, cats, hues, pal, yfield) ==
  IF version = "v0_12" THEN DataBars(version, data, cats, hues, pal, yfield)
  ELSE IF data = <<>> THEN <<>>
  ELSE DataBars(version, data, cats, hues, pal, yfield) \o LegendProxies(hues, pal)

\* ax.patches of facet a of sns.catplot(kind='bar', col='Filename'):
\* seaborn 0.13 puts the legend proxies on the axes it drew last.
FacetPatches(version, data, cats, hues, pal, yfield, a, ncol) ==
  IF version = "v0_12" \/ a # ncol
  THEN DataBars(version, data, cats, hues, pal, yfield)
  ELSE DataBars(version, data, cats, hues, pal, yfield) \o LegendProxies(hues, pal)

RECURSIVE SeqProduct(_)
SeqProduct(sets) ==
  IF sets = <<>> THEN { <<>> }
  ELSE { <<x>> \o t : x \in Head(sets), t \in SeqProduct(Tail(sets)) }

\* errorbar=('ci', 95) with n_boot=1000 and seed=None: the percentile interval
\* of the bootstrap means of the group.  Fewer than two observations give
\* (nan, nan); equal observations give that value; otherwise the interval
\* depends on the resampling, whose generator is seeded from the system.
BootstrapCI(vals) ==
  IF Len(vals) < 2 THEN { <<NaN, NaN>> }
  ELSE { <<Fin(p[1], 1), Fin(p[2], 1)>> :
           p \in { q \in Range(vals) \X Range(vals) : q[1] <= q[2] } }

NoAxes ==
  [patches |-> <<>>, xticklabels |-> <<>>, lines |-> <<>>, errorbars |-> <<>>,
   yscale |-> "linear", title |-> "", legend |-> ""]

NoGrid == [col_names |-> <<>>, axes |-> <<>>]

\* what savefig draws: the artists of the figure that is current
Render(figure, axes1, grid) ==
  IF figure = "fig" THEN [figure |-> "fig", axes |-> <<axes1>>]
  ELSE IF figure = "g" THEN [figure |-> "g", axes |-> grid.axes]
  ELSE [figure |-> "new", axes |-> <<>>]

\* ------------------------------------------------------------ the script
csv_name == "benchmark_results.csv"
throughput_plot_path == "throughput_comparison_with_stddev.png"
performance_plot_path == "performance_comparison_with_stddev.png"
OutputNames == {throughput_plot_path, performance_plot_path}

VARIABLES
  seaborn,        \* the installed seaborn
  csv,            \* benchmark_results.csv: NoFile or its records
  disk,           \* the PNG files of results_dir: name -> content or NoFile
  pc,             \* position of generate_plots
  df, df_large_file,
  figs, gcf,      \* pyplot: the open figures and the current one
  ax, g,          \* the axes of chart 1, the FacetGrid of chart 2
  i, bar,         \* loop positions: facet, patch
  stdout,
  run, prev       \* number of the run, disk as the previous run left it

vars == <<seaborn, csv, disk, pc, df, df_large_file, figs, gcf, ax, g, i, bar,
          stdout, run, prev>>

env == <<seaborn, csv, run, prev>>

Init ==
  /\ seaborn \in Versions
  /\ csv \in {NoFile} \cup { File(d) : d \in Datasets }
  /\ disk = [n \in OutputNames |-> NoFile]
  /\ pc = "exists"
  /\ df = <<>>
  /\ df_large_file = <<>>
  /\ figs = {}
  /\ gcf = "none"
  /\ ax = NoAxes
  /\ g = NoGrid
  /\ i = 0
  /\ bar = 0
  /\ stdout = <<>>
  /\ run = 1
  /\ prev = disk

\* the existence check without its return (compared in C1)
NotFound_falls_through ==
  /\ pc = "exists"
  /\ ~ csv.exists
  /\ stdout' = Append(stdout, [line |-> "not found", path |-> csv_name])
  /\ pc' = "filter"
  /\ UNCHANGED <<env, disk, df, df_large_file, figs, gcf, ax, g, i, bar>>

\* lines 10-12
csv_exists == csv.exists

NotFound ==
  /\ pc = "exists"
  /\ ~ csv_exists
  /\ stdout' = Append(stdout, [line |-> "not found", path |-> csv_name])
  /\ pc' = "done"
  /\ UNCHANGED <<env, disk, df, df_large_file, figs, gcf, ax, g, i, bar>>

\* lines 14-16
read_csv ==
  /\ pc = "exists"
  /\ csv_exists
  /\ df' = csv.content
  /\ pc' = "filter"
  /\ UNCHANGED <<env, disk, df_large_file, figs, gcf, ax, g, i, bar, stdout>>

\* the ratio taken the other way round (compared in C3)
Throughput_StdDev_swapped(r) == FMul(TrueDiv(r.Throughput, r.StdDev), r.MeanTime)

\* line 22
Throughput_StdDev(r) == FMul(TrueDiv(r.Throughput, r.MeanTime), r.StdDev)

\* line 21
large_file_mask(r) == Contains(r.Filename, Marker)

\* lines 21-22
LargeFile(data) ==
  LET sel == SelectSeq(data, large_file_mask)
  IN [k \in 1..Len(sel) |->
        [Cipher |-> sel[k].Cipher, Operation |-> sel[k].Operation,
         Filename |-> sel[k].Filename, MeanTime |-> sel[k].MeanTime,
         StdDev |-> sel[k].StdDev, Throughput |-> sel[k].Throughput,
         Throughput_StdDev |-> Throughput_StdDev(sel[k])]]

Transform ==
  /\ pc = "filter"
  /\ df_large_file' = LargeFile(df)
  /\ pc' = IF \E k \in 1..Len(df_large_file') :
                df_large_file'[k].Throughput_StdDev.k = "raise"
           THEN "raised" ELSE "subplots"
  /\ UNCHANGED <<env, disk, df, figs, gcf, ax, g, i, bar, stdout>>

\* line 24
Subplots ==
  /\ pc = "subplots"
  /\ figs' = figs \cup {"fig"}
  /\ gcf' = "fig"
  /\ ax' = NoAxes
  /\ pc' = "barplot"
  /\ UNCHANGED <<env, disk, df, df_large_file, g, i, bar, stdout>>

\* lines 15-16: the categories stay with the columns of every slice of df
cipher_categories == Categories(df, "Cipher", CipherOrder)
operation_categories == Categories(df, "Operation", OperationOrder)
hue_palette(name) == color_palette(name, Len(operation_categories))

\* line 25: no errorbar argument, so every bar carries the default interval
Intervals(patches, data, yfield) ==
  LET bars == SelectSeq(patches, LAMBDA p : p.kind = "bar")
  IN [k \in 1..Len(bars) |->
        BootstrapCI(Column(Lookup(data, bars[k].cipher, bars[k].operation), yfield))]

\* line 25
Barplot ==
  /\ pc = "barplot"
  /\ \E patches \in { BarplotPatches(seaborn, df_large_file, cipher_categories,
                                      operation_categories, hue_palette("viridis"),
                                      "Throughput") } :
       \E lines \in SeqProduct(Intervals(patches, df_large_file, "Throughput")) :
         ax' = [ax EXCEPT !.patches = patches,
                          !.xticklabels = cipher_categories,
                          !.lines = lines]
  /\ bar' = 1
  /\ pc' = "bars1"
  /\ UNCHANGED <<env, disk, df, df_large_file, figs, gcf, g, i, stdout>>

\* lines 30, 79: ax.get_xticklabels()[int(round(bar.get_x() + bar.get_width() / 2))]
x_val(axes, p) ==
  LET idx == PyRound(p.x + p.width \div 2)
      n == Len(axes.xticklabels)
  IN IF idx >= 0 /\ idx < n THEN axes.xticklabels[idx + 1]
     ELSE IF idx < 0 /\ idx + n >= 0 THEN axes.xticklabels[idx + n + 1]
     ELSE "IndexError"

\* lines 33-34, 81-82
hue_val(p, name) ==
  IF p.facecolor = color_palette(name, 2)[1] THEN "encrypt" ELSE "decrypt"

\* the loop body taking the last matching row (compared in C10)
ErrorBar_last_row(axes, k, data, name, yerr, capsize) ==
  LET p == axes.patches[k]
      row == Lookup(data, x_val(axes, p), hue_val(p, name))
  IN IF row # <<>>
     THEN [axes EXCEPT !.errorbars =
             Append(@, [patch |-> k, x |-> p.x + p.width \div 2, y |-> p.height,
                        yerr |-> row[Len(row)][yerr], capsize |-> capsize])]
     ELSE axes

\* lines 36-39, 84-87: the axes after the loop body has handled patch k
ErrorBar(axes, k, data, name, yerr, capsize) ==
  LET p == axes.patches[k]
      row == Lookup(data, x_val(axes, p), hue_val(p, name))
  IN IF row # <<>>
     THEN [axes EXCEPT !.errorbars =
             Append(@, [patch |-> k, x |-> p.x + p.width \div 2, y |-> p.height,
                        yerr |-> row[1][yerr], capsize |-> capsize])]
     ELSE axes

\* lines 28-39, one patch of ax.patches
ErrorBars1 ==
  /\ pc = "bars1"
  /\ bar <= Len(ax.patches)
  /\ IF x_val(ax, ax.patches[bar]) = "IndexError"
     THEN /\ pc' = "raised"
          /\ UNCHANGED <<ax, bar>>
     ELSE /\ ax' = ErrorBar(ax, bar, df_large_file, "viridis", "Throughput_StdDev", 4)
          /\ bar' = bar + 1
          /\ pc' = pc
  /\ UNCHANGED <<env, disk, df, df_large_file, figs, gcf, g, i, stdout>>

\* lines 41-44
Labels ==
  /\ pc = "bars1"
  /\ bar > Len(ax.patches)
  /\ ax' = [ax EXCEPT !.title = "Throughput for 2.5MB File (Larger is Better)",
                      !.legend = "Operation"]
  /\ bar' = 0
  /\ pc' = "savefig1"
  /\ UNCHANGED <<env, disk, df, df_large_file, figs, gcf, g, i, stdout>>

\* plt.savefig(path): the current figure, written over whatever is at path
savefig(files, path) == [files EXCEPT ![path] = File(Render(gcf, ax, g))]

\* plt.close(figure)
close(figure) ==
  /\ figs' = figs \ {figure}
  /\ gcf' = IF gcf = figure THEN "none" ELSE gcf

\* line 47
Savefig1 ==
  /\ pc = "savefig1"
  /\ disk' = savefig(disk, throughput_plot_path)
  /\ pc' = "close1"
  /\ UNCHANGED <<env, df, df_large_file, figs, gcf, ax, g, i, bar, stdout>>

\* chart 1 left open (compared in C9)
Close1_left_open ==
  /\ pc = "close1"
  /\ pc' = "print1"
  /\ UNCHANGED <<env, disk, df, df_large_file, figs, gcf, ax, g, i, bar, stdout>>

\* line 48
Close1 ==
  /\ pc = "close1"
  /\ close("fig")
  /\ pc' = "print1"
  /\ UNCHANGED <<env, disk, df, df_large_file, ax, g, i, bar, stdout>>

\* line 49
Print1 ==
  /\ pc = "print1"
  /\ stdout' = Append(stdout, [line |-> "saved", path |-> throughput_plot_path])
  /\ pc' = "catplot"
  /\ UNCHANGED <<env, disk, df, df_large_file, figs, gcf, ax, g, i, bar>>

\* lines 53-70: one axes per distinct Filename, in order of appearance
FacetGrid(names) ==
  [col_names |-> names,
   axes |-> [a \in 1..Len(names) |->
      [NoAxes EXCEPT
         !.patches = FacetPatches(seaborn,
                       SelectSeq(df, LAMBDA r : r.Filename = names[a]),
                       cipher_categories, operation_categories,
                       hue_palette("plasma"), "MeanTime", a, Len(names)),
         !.xticklabels = cipher_categories,
         !.title = names[a]]]]

\* lines 53-70
Catplot ==
  /\ pc = "catplot"
  /\ figs' = figs \cup {"g"}
  /\ gcf' = "g"
  /\ \E grid \in { FacetGrid(Unique(Column(df, "Filename"))) } : g' = grid
  /\ i' = 1
  /\ pc' = "facets"
  /\ UNCHANGED <<env, disk, df, df_large_file, ax, bar, stdout>>

\* lines 73-76
Facet ==
  /\ pc = "facets"
  /\ i <= Len(g.axes)
  /\ g' = [g EXCEPT !.axes[i].yscale = "log"]
  /\ bar' = 1
  /\ pc' = "bars2"
  /\ UNCHANGED <<env, disk, df, df_large_file, figs, gcf, ax, i, stdout>>

\* lines 75-76
sub_df == SelectSeq(df, LAMBDA r : r.Filename = g.col_names[i])

\* lines 78-87, one patch of the facet's ax.patches
ErrorBars2 ==
  /\ pc = "bars2"
  /\ bar <= Len(g.axes[i].patches)
  /\ IF x_val(g.axes[i], g.axes[i].patches[bar]) = "IndexError"
     THEN /\ pc' = "raised"
          /\ UNCHANGED <<g, bar>>
     ELSE /\ g' = [g EXCEPT !.axes[i] = ErrorBar(@, bar, sub_df, "plasma", "StdDev", 3)]
          /\ bar' = bar + 1
          /\ pc' = pc
  /\ UNCHANGED <<env, disk, df, df_large_file, figs, gcf, ax, i, stdout>>

\* line 73, the next facet
NextFacet ==
  /\ pc = "bars2"
  /\ bar > Len(g.axes[i].patches)
  /\ i' = i + 1
  /\ bar' = 0
  /\ pc' = "facets"
  /\ UNCHANGED <<env, disk, df, df_large_file, figs, gcf, ax, g, stdout>>

\* chart 2 saved under chart 1's name (compared in C5)
Savefig2_same_path ==
  /\ pc = "facets"
  /\ i > Len(g.axes)
  /\ disk' = savefig(disk, throughput_plot_path)
  /\ pc' = "close2"
  /\ UNCHANGED <<env, df, df_large_file, figs, gcf, ax, g, i, bar, stdout>>

\* lines 89-90
Savefig2 ==
  /\ pc = "facets"
  /\ i > Len(g.axes)
  /\ disk' = savefig(disk, performance_plot_path)
  /\ pc' = "close2"
  /\ UNCHANGED <<env, df, df_large_file, figs, gcf, ax, g, i, bar, stdout>>

\* line 91
Close2 ==
  /\ pc = "close2"
  /\ close("g")
  /\ pc' = "print2"
  /\ UNCHANGED <<env, disk, df, df_large_file, ax, g, i, bar, stdout>>

\* line 92
Print2 ==
  /\ pc = "print2"
  /\ stdout' = Append(stdout, [line |-> "saved", path |-> performance_plot_path])
  /\ pc' = "done"
  /\ UNCHANGED <<env, disk, df, df_large_file, figs, gcf, ax, g, i, bar>>

\* lines 6-92
generate_plots ==
  \/ NotFound \/ read_csv \/ Transform
  \/ Subplots \/ Barplot \/ ErrorBars1 \/ Labels \/ Savefig1 \/ Close1 \/ Print1
  \/ Catplot \/ Facet \/ ErrorBars2 \/ NextFacet \/ Savefig2 \/ Close2 \/ Print2

Next == generate_plots

Spec == Init /\ [][Next]_vars

\* lines 94-95, a second time: a new process in the directory as the first left it
Rerun ==
  /\ pc = "done"
  /\ run = 1
  /\ run' = 2
  /\ prev' = disk
  /\ pc' = "exists"
  /\ df' = <<>>
  /\ df_large_file' = <<>>
  /\ figs' = {}
  /\ gcf' = "none"
  /\ ax' = NoAxes
  /\ g' = NoGrid
  /\ i' = 0
  /\ bar' = 0
  /\ stdout' = <<>>
  /\ UNCHANGED <<seaborn, csv, disk>>

NextTwice == generate_plots \/ Rerun

SpecTwice == Init /\ [][NextTwice]_vars

\* ------------------------------------------------------------ properties
NoImages == [n \in OutputNames |-> NoFile]
error_line == [line |-> "not found", path |-> csv_name]
saved_line(path) == [line |-> "saved", path |-> path]
Loaded == pc \notin {"exists", "filter"} /\ csv.exists
Finished == pc = "done" /\ csv.exists

\* C1: when benchmark_results.csv does not exist, the run prints the "not
\* found" line and returns at once: it never gets past the existence check,
\* no image file is written, no figure is opened, nothing else is printed.
C1_MissingInput ==
  ~ csv.exists =>
    /\ pc \in {"exists", "done"}
    /\ disk = NoImages
    /\ figs = {} /\ gcf = "none"
    /\ stdout = IF pc = "done" THEN <<error_line>> ELSE <<>>

C1_Witness == ~ csv.exists /\ pc = "done" /\ stdout = <<error_line>>

\* f = pre . Marker . post for some split of f
HasMarker(f) ==
  \E a \in 0..Len(f) : \E b \in a..Len(f) :
    f = SubSeq(f, 1, a) \o Marker \o SubSeq(f, b + 1, Len(f))

Input(r) ==
  [Cipher |-> r.Cipher, Operation |-> r.Operation, Filename |-> r.Filename,
   MeanTime |-> r.MeanTime, StdDev |-> r.StdDev, Throughput |-> r.Throughput]

\* v = Throughput / MeanTime * StdDev, without dividing
IsDerived(v, r) ==
  IF r.MeanTime # 0
  THEN v.k = "fin" /\ v.d > 0 /\ v.n * r.MeanTime = r.Throughput * r.StdDev * v.d
  ELSE IF r.Throughput > 0 /\ r.StdDev > 0 THEN v.k = "inf" ELSE v.k = "nan"

\* C3: after the transform the subset holds exactly the rows of the Dataset
\* whose Filename contains 2_5MB, in their order, and every one of them has
\* Throughput_StdDev = Throughput(MB/s) / MeanTime(ms) * StdDev(ms).
C3_DerivedColumn ==
  Loaded =>
    /\ [k \in 1..Len(df_large_file) |-> Input(df_large_file[k])]
         = SelectSeq(df, LAMBDA r : HasMarker(r.Filename))
    /\ \A k \in 1..Len(df_large_file) :
         IsDerived(df_large_file[k].Throughput_StdDev, df_large_file[k])

C3_Witness ==
  /\ pc = "subplots"
  /\ Len(df_large_file) = 1 /\ Len(df) = 2
  /\ df_large_file[1].Throughput_StdDev = [k |-> "fin", n |-> 1, d |-> 2]

ZeroMeanTime ==
  \E k \in 1..Len(df) : HasMarker(df[k].Filename) /\ df[k].MeanTime = 0

BothSaved ==
  /\ disk[throughput_plot_path].exists
  /\ disk[performance_plot_path].exists

\* C4: with a zero MeanTime(ms) in the filtered subset the derived column is
\* computed without raising (the value of such a row is inf or nan): the run
\* is not aborted at the transform step or later, and it returns with both
\* charts saved.
C4_ZeroMeanTime ==
  (Loaded /\ ZeroMeanTime) =>
    /\ pc # "raised"
    /\ \A k \in 1..Len(df_large_file) :
         df_large_file[k].MeanTime = 0 =>
           df_large_file[k].Throughput_StdDev \in {Inf, NaN}
    /\ pc = "done" => BothSaved

C4_Witness ==
  /\ Finished /\ ZeroMeanTime /\ BothSaved
  /\ \E k \in 1..Len(df_large_file) : df_large_file[k].Throughput_StdDev = Inf

C5_Inv ==
  csv.exists =>
    /\ pc # "raised"
    /\ pc # "done" => ENABLED Next
    /\ \A k \in 1..Len(stdout) :
         stdout[k].line = "saved" /\ disk[stdout[k].path].exists
    /\ disk[performance_plot_path].exists => disk[throughput_plot_path].exists
    /\ stdout \in { <<>>, <<saved_line(throughput_plot_path)>>,
                    <<saved_line(throughput_plot_path),
                      saved_line(performance_plot_path)>> }
    /\ pc = "done" => BothSaved /\ Len(stdout) = 2

\* C5: when the input exists the run ends with the two image files written,
\* the throughput chart first, and the two confirmation lines printed in that
\* order, each only once its file is on disk, and never an error line; the
\* run is never aborted and can always take its next step until it returns.
C5_TwoImages == [] C5_Inv

C5_Witness == Finished /\ BothSaved /\ Len(stdout) = 2

Pairs(data) == { <<data[k].Cipher, data[k].Operation>> : k \in 1..Len(data) }
PatchPairs(patches) ==
  { <<patches[k].cipher, patches[k].operation>> : k \in 1..Len(patches) }
Charted1 == Loaded /\ pc \notin {"subplots", "barplot"}

\* C6: with both operations in the input and a non-empty filtered subset,
\* the patches the error-bar loop of the large-file chart walks are one bar
\* for each (Cipher, Operation) pair of the filtered subset and nothing else.
C6_OneBarPerPair ==
  (Charted1 /\ Len(operation_categories) = 2 /\ df_large_file # <<>>) =>
    /\ PatchPairs(ax.patches) = Pairs(df_large_file)
    /\ Len(ax.patches) = Cardinality(Pairs(df_large_file))

FirstRow(data, c, o) ==
  LET hits == { m \in 1..Len(data) : data[m].Cipher = c /\ data[m].Operation = o }
  IN data[CHOOSE m \in hits : \A q \in hits : m <= q]

\* the patches that show rows of the data
Drawn(axes) ==
  { k \in 1..Len(axes.patches) :
      axes.patches[k].kind = "bar" /\ axes.patches[k].height # NaN }

OwnErrorBars(axes, data, name, yerr) ==
  /\ \A k \in Drawn(axes) :
       hue_val(axes.patches[k], name) = axes.patches[k].operation
  /\ \A e \in Range(axes.errorbars) :
       e.patch \in Drawn(axes) =>
         e.yerr = FirstRow(data, axes.patches[e.patch].cipher,
                           axes.patches[e.patch].operation)[yerr]

\* C2: in both charts the Operation recovered from a bar's face colour is the
\* Operation of that bar, and the error bar drawn on a bar has the magnitude
\* of that bar's own row (Throughput_StdDev, resp. StdDev(ms) in the panel's
\* file).
C2_OwnRow ==
  Len(operation_categories) = 2 =>
  /\ Charted1 => OwnErrorBars(ax, df_large_file, "viridis", "Throughput_StdDev")
  /\ \A a \in 1..Len(g.axes) :
       OwnErrorBars(g.axes[a],
                    SelectSeq(df, LAMBDA r : r.Filename = g.col_names[a]),
                    "plasma", "StdDev")

Faceted == Loaded /\ pc \in {"facets", "bars2", "close2", "print2", "done"}

PanelOf(axes, name) ==
  LET rows == SelectSeq(df, LAMBDA r : r.Filename = name)
      drawn == Drawn(axes)
  IN /\ axes.title = name
     /\ { <<axes.patches[k].cipher, axes.patches[k].operation>> : k \in drawn }
          = Pairs(rows)
     /\ \A k \in drawn :
          axes.patches[k].height =
            Mean(Column(Lookup(rows, axes.patches[k].cipher,
                               axes.patches[k].operation), "MeanTime"))
     /\ \A e \in Range(axes.errorbars) :
          \E m \in 1..Len(rows) : rows[m].StdDev = e.yerr

\* C7: the per-file chart has one panel for each distinct Filename of the
\* Dataset, panel a shows the rows whose Filename is the a-th column name,
\* and when the chart is saved every panel has a log y-axis.
C7_Panels ==
  Faceted =>
    /\ Len(g.axes) = Cardinality({ df[k].Filename : k \in 1..Len(df) })
    /\ Len(g.col_names) = Len(g.axes)
    /\ Range(g.col_names) = { df[k].Filename : k \in 1..Len(df) }
    /\ \A a \in 1..Len(g.axes) : PanelOf(g.axes[a], g.col_names[a])
    /\ \A a \in 1..Len(g.axes) :
         (a < i \/ (a = i /\ pc = "bars2")) => g.axes[a].yscale = "log"
    /\ disk[performance_plot_path].exists =>
         /\ Len(disk[performance_plot_path].content.axes) = Len(g.axes)
         /\ \A a \in 1..Len(g.axes) :
              disk[performance_plot_path].content.axes[a].yscale = "log"

C7_Witness ==
  /\ Finished /\ Len(g.axes) = 2
  /\ g.col_names[1] = df[1].Filename /\ g.col_names[2] = df[2].Filename
  /\ \A a \in 1..2 : disk[performance_plot_path].content.axes[a].yscale = "log"

\* C8: a second run on the same input leaves the same two images as the
\* first run did.
C8_SameImages == (run = 2 /\ pc = "done") => disk = prev

Sequence ==
  <<"exists", "filter", "subplots", "barplot", "bars1", "savefig1", "close1",
    "print1", "catplot", "facets", "bars2", "close2", "print2", "done">>
Rank(p) == CHOOSE k \in 1..Len(Sequence) : Sequence[k] = p

C9_Surfaces ==
  /\ Cardinality(figs) <= 1
  /\ gcf \in figs \cup {"none"}
  /\ "fig" \in figs <=> (Loaded /\ pc \in {"barplot", "bars1", "savefig1", "close1"})
  /\ "g" \in figs <=> (Loaded /\ pc \in {"facets", "bars2", "close2"})
  /\ disk[throughput_plot_path].exists =>
       disk[throughput_plot_path].content = Render("fig", ax, g)
  /\ disk[performance_plot_path].exists =>
       /\ disk[performance_plot_path].content = Render("g", ax, g)
       /\ disk[throughput_plot_path].exists
  /\ disk[throughput_plot_path].exists <=> (Loaded /\ Rank(pc) > Rank("savefig1"))
  /\ disk[performance_plot_path].exists <=> (Loaded /\ Rank(pc) >= Rank("close2"))

C9_Order ==
  \/ pc' = pc
  \/ Rank(pc') = Rank(pc) + 1
  \/ pc = "bars2" /\ pc' = "facets"
  \/ pc = "facets" /\ pc' = "close2"
  \/ pc = "exists" /\ ~ csv.exists /\ pc' = "done"

\* C9: the run is one pass load, transform, chart 1 rendered, saved, closed,
\* chart 2 rendered, saved, closed; at most one figure is open at any point,
\* chart 1's figure is closed before chart 2's is created, and each file holds
\* the figure of its own chart.
C9_LinearPass == [] C9_Surfaces /\ [][C9_Order]_vars

C9_Witness ==
  /\ pc = "close2" /\ figs = {"g"} /\ gcf = "g"
  /\ disk[performance_plot_path].content.figure = "g"
  /\ disk[throughput_plot_path].exists
  /\ disk[throughput_plot_path].content.figure = "fig"

\* the axes after the loop body has handled patch k, as C10 states it
Handled(axes, axes2, k, data, name, yerr) ==
  LET p == axes.patches[k]
      c == x_val(axes, p)
      h == hue_val(p, name)
  IN IF <<c, h>> \notin Pairs(data)
     THEN axes2 = axes
     ELSE /\ Len(axes2.errorbars) = Len(axes.errorbars) + 1
          /\ SubSeq(axes2.errorbars, 1, Len(axes.errorbars)) = axes.errorbars
          /\ axes2.errorbars[Len(axes2.errorbars)].patch = k
          /\ axes2.errorbars[Len(axes2.errorbars)].yerr = FirstRow(data, c, h)[yerr]
          /\ [axes2 EXCEPT !.errorbars = axes.errorbars] = axes

C10_Step ==
  /\ (pc = "bars1" /\ bar <= Len(ax.patches)) =>
       /\ Handled(ax, ax', bar, df_large_file, "viridis", "Throughput_StdDev")
       /\ pc' = "bars1" /\ bar' = bar + 1 /\ stdout' = stdout
  /\ (pc = "bars2" /\ bar <= Len(g.axes[i].patches)) =>
       /\ Handled(g.axes[i], g'.axes[i], bar,
                  SelectSeq(df, LAMBDA r : r.Filename = g.col_names[i]),
                  "plasma", "StdDev")
       /\ pc' = "bars2" /\ bar' = bar + 1 /\ stdout' = stdout

\* C10: in both charts a patch whose lookup finds no row gets no error bar,
\* raises nothing and prints nothing, and the loop moves to the next patch;
\* a patch whose lookup finds rows gets exactly one error bar, with the
\* magnitude of the first of them.
C10_Lookup == [][C10_Step]_vars

\* chart 1 skipped a patch (its lookup was empty) and chart 2 drew the error
\* bar of the first of two matching rows
C10_Witness ==
  /\ pc = "close2"
  /\ Len(ax.patches) >= 1 /\ ax.errorbars = <<>>
  /\ Len(df) = 2
  /\ Pairs(df) = {<<"A", "decrypt">>}
  /\ df[1].Filename = df[2].Filename
  /\ df[1].StdDev # df[2].StdDev
  /\ Len(g.axes[1].errorbars) = 1
  /\ g.axes[1].errorbars[1].yerr = df[1].StdDev

====
